---- MODULE Spec2Model ----
(***************************************************************************)
(* Model of the skyrmion model widget (skyrmion_model_widget.ipynb): the   *)
(* triangular lattice generator, the hexagon cells, the linear skyrmion    *)
(* spin field with its normalisation, and the slider callbacks that        *)
(* re-evaluate the field.                                                  *)
(*                                                                         *)
(* Numbers.  The notebook computes in float64.  Here a real v is the       *)
(* integer round(v * S): sums are exact, products, quotients and square    *)
(* roots round to the nearest unit, half away from zero, so that, as in    *)
(* IEEE arithmetic, op(-a, b) = -op(a, b).  Angles are in units of 1/S     *)
(* radian.  "Equal within tolerance" is |a - b| <= Tol units.              *)
(***************************************************************************)
EXTENDS Integers, Sequences, FiniteSets, TLC

----------------------------------------------------------------------------
(* Bounds of the model *)

\* lattice sizes nx, ny of the notebook's setup cell: 1..MaxWidgetN (it runs 30 x 30)
MaxWidgetN == 2
\* lattice sizes nx, ny handed to the functions directly: up to MaxN
MaxN == 4
\* skyrmion radii explored on the slider: RadMin..MaxRsk, and RadInit
MaxRsk == 3
\* position components handed to s_skyrmion directly: -MaxPos..MaxPos
MaxPos == 2
\* hexagon radii handed to init_coordinates directly: up to MaxRadius
MaxRadius == 2

----------------------------------------------------------------------------
(* Arithmetic *)

\* one unit of the number representation: 1.0 is S
S == 10 ^ 3
\* two numbers closer than Tol units are equal "within tolerance"
Tol == 5

Abs(a) == IF a < 0 THEN -a ELSE a
Sgn(a) == IF a < 0 THEN -1 ELSE IF a > 0 THEN 1 ELSE 0

\* The arithmetic is written as functions on Int: applying a function evaluates
\* its arguments once, where an operator evaluates an argument at each use.

\* n / d for integers n and d > 0, rounded to nearest, half away from zero
RndV[n \in Int, d \in Int] ==
    IF n >= 0 THEN (2 * n + d) \div (2 * d)
    ELSE -((2 * (-n) + d) \div (2 * d))
Rnd(n, d) == RndV[n, d]

\* a * b
Mul(a, b) == RndV[a * b, S]

\* a / b, b # 0
DivV[a \in Int, b \in Int] == RndV[Sgn(b) * a * S, Abs(b)]
Div(a, b) == DivV[a, b]

\* floor of the square root of the natural number n, by bisection on lo..hi
IsqrtIn[n \in Nat, lo \in Nat, hi \in Nat] ==
    IF lo >= hi THEN lo
    ELSE IF ((lo + hi + 1) \div 2) * ((lo + hi + 1) \div 2) <= n
         THEN IsqrtIn[n, (lo + hi + 1) \div 2, hi]
         ELSE IsqrtIn[n, lo, ((lo + hi + 1) \div 2) - 1]

\* np.sqrt(v), v >= 0: the root of v * S, rounded to nearest
SqrtV[v \in Nat] ==
    LET f == IsqrtIn[v * S, 0, IF v > S THEN v ELSE S]
    IN IF v * S - f * f > f THEN f + 1 ELSE f
Sqrt(v) == SqrtV[v]

\* np.pi
PI == 3142
HalfPi == PI \div 2
TwoPi == 2 * PI

\* sin on [0, pi/4]: the Taylor polynomial of degree 7 in Horner form
SinP(a) ==
    LET a2 == Mul(a, a)
        t1 == S - Rnd(a2, 42)
        t2 == S - Rnd(Mul(a2, t1), 20)
        t3 == S - Rnd(Mul(a2, t2), 6)
    IN Mul(a, t3)

\* cos on [0, pi/4]: the Taylor polynomial of degree 6 in Horner form
CosP(a) ==
    LET a2 == Mul(a, a)
        t1 == S - Rnd(a2, 30)
        t2 == S - Rnd(Mul(a2, t1), 12)
    IN S - Rnd(Mul(a2, t2), 2)

\* sin and cos on [0, pi/2]
SinQ(a) == IF 2 * a <= HalfPi THEN SinP(a) ELSE CosP(HalfPi - a)
CosQ(a) == IF 2 * a <= HalfPi THEN CosP(a) ELSE SinP(HalfPi - a)

\* np.sin
SinV[a \in Int] ==
    LET m == a % TwoPi
    IN IF m <= HalfPi THEN SinQ(m)
       ELSE IF m <= PI THEN SinQ(PI - m)
       ELSE IF m <= PI + HalfPi THEN -SinQ(m - PI)
       ELSE -SinQ(TwoPi - m)
Sin(a) == SinV[a]

\* np.cos
CosV[a \in Int] ==
    LET m == a % TwoPi
    IN IF m <= HalfPi THEN CosQ(m)
       ELSE IF m <= PI THEN -CosQ(PI - m)
       ELSE IF m <= PI + HalfPi THEN -CosQ(m - PI)
       ELSE CosQ(TwoPi - m)
Cos(a) == CosV[a]

\* arctan on [0, 1]: pi/4 t + t (1 - t) (0.2447 + 0.0663 t)
Atan01[t \in Nat] == Rnd(t * PI, 4 * S) + Mul(Mul(t, S - t), 245 + Mul(66, t))

\* np.arctan2(y, x), in (-pi, pi]; arctan2(0, 0) = 0
Arctan2V[y \in Int, x \in Int] ==
    IF x = 0 /\ y = 0 THEN 0
    ELSE LET base == IF Abs(x) >= Abs(y) THEN Atan01[Div(Abs(y), Abs(x))]
                     ELSE HalfPi - Atan01[Div(Abs(x), Abs(y))]
             ang == IF x >= 0 THEN base ELSE PI - base
         IN IF y < 0 THEN -ang ELSE ang
Arctan2(y, x) == Arctan2V[y, x]

\* the largest and the smallest element of a non-empty set of integers
SetMax(A) == CHOOSE a \in A : \A b \in A : b <= a
SetMin(A) == CHOOSE a \in A : \A b \in A : a <= b

----------------------------------------------------------------------------
(* Program constants *)

\* nx, ny, radius = 30, 30, 1: the hexagon radius of the notebook's lattice
LatRadius == 1
\* hel_slider: min 0, max np.pi, step np.pi / 10
HelSteps == 10
\* rad_slider: value 14, min 2, max 25
RadInit == 14
RadMin == 2
RadMax == 25

----------------------------------------------------------------------------
(* Arrays are functions on 0..n-1, as numpy indexes them *)

Zeros3 == <<0, 0, 0>>
EmptyArr == [k \in {} |-> Zeros3]
ArrLen(a) == Cardinality(DOMAIN a)

----------------------------------------------------------------------------
(* Lattice *)

\* get_index with the row stride ny in place of nx
get_index_stride(nx, ny, i, j) ==
    IF i < 0 \/ j < 0 \/ i >= nx \/ j >= ny THEN -1
    ELSE i + j * ny

\* get_index with the test i >= nx left out
get_index_unbounded(nx, ny, i, j) ==
    IF i < 0 \/ j < 0 \/ j >= ny THEN -1
    ELSE i + j * nx

get_index(nx, ny, i, j) ==
    IF i < 0 \/ j < 0 \/ i >= nx \/ j >= ny THEN -1
    ELSE i + j * nx

\* the number of times the body of "for j in range(ny): for i in range(nx)" runs
LoopCount(nx, ny) == IF nx > 0 /\ ny > 0 THEN nx * ny ELSE 0
\* the (i, j) of the t-th run of that body, t = 0, 1, ...
LoopI(nx, t) == t % nx
LoopJ(nx, t) == t \div nx

\* LatticePoint with no row shifted: sign = 0 in every row
LatticePoint_unshifted(i, j, radius) ==
    LET dy == Mul(Sqrt(3 * S), radius)
        dx == 2 * radius
        h == Div(dx * 2, Sqrt(3 * S))
    IN << i * dx + Rnd(dx, 2), j * dy + Rnd(h, 2), 0 >>

\* LatticePoint with the rows mirrored: sign = 1 in the odd rows, 0 in the even
LatticePoint_mirrored(i, j, radius) ==
    LET dy == Mul(Sqrt(3 * S), radius)
        dx == 2 * radius
        h == Div(dx * 2, Sqrt(3 * S))
        sign == IF j % 2 = 0 THEN 0 ELSE 1
    IN << Rnd(sign * dx, 2) + i * dx + Rnd(dx, 2), j * dy + Rnd(h, 2), 0 >>

\* the point init_coordinates computes for column i of row j
LatticePoint(i, j, radius) ==
    LET dy == Mul(Sqrt(3 * S), radius)
        dx == 2 * radius
        h == Div(dx * 2, Sqrt(3 * S))
        sign == IF j % 2 = 0 THEN 1 ELSE 0
    IN << Rnd(sign * dx, 2) + i * dx + Rnd(dx, 2), j * dy + Rnd(h, 2), 0 >>

\* the assignments "coordinates[index] = r" of init_coordinates, in the order made
CoordinateWrites(nx, ny, radius) ==
    [t \in 1..LoopCount(nx, ny) |->
        [index |-> get_index(nx, ny, LoopI(nx, t - 1), LoopJ(nx, t - 1)),
         r |-> LatticePoint(LoopI(nx, t - 1), LoopJ(nx, t - 1), radius)]]

\* a[w] of an array of length n: numpy counts a negative w from the end
NpIndexOk(w, n) == -n <= w /\ w < n
NpIndex(w, n) == IF w < 0 THEN w + n ELSE w

\* np.zeros((n, 3)) after the writes ws, in order: a slot holds the last write to it
Written(ws, n) ==
    [k \in 0..(n - 1) |->
        LET T == {t \in 1..Len(ws) : NpIndex(ws[t].index, n) = k}
        IN IF T = {} THEN Zeros3 ELSE ws[SetMax(T)].r]

\* init_coordinates with its arguments validated on entry
init_coordinates_validated(nx, ny, radius) ==
    IF nx < 1 \/ ny < 1 \/ radius <= 0
    THEN [exc |-> "InvalidArgument", val |-> EmptyArr]
    ELSE [exc |-> "none",
          val |-> Written(CoordinateWrites(nx, ny, radius), nx * ny)]

\* the outcome of init_coordinates(nx, ny, radius), radius in units of 1/S:
\* exc is the exception raised ("none": the call returns val)
init_coordinates(nx, ny, radius) ==
    IF nx * ny < 0 THEN [exc |-> "ValueError", val |-> EmptyArr]
    ELSE CHOOSE res \in
            {IF \E t \in 1..Len(ws) : ~NpIndexOk(ws[t].index, nx * ny)
             THEN [exc |-> "IndexError", val |-> EmptyArr]
             ELSE [exc |-> "none", val |-> Written(ws, nx * ny)] :
                ws \in {CoordinateWrites(nx, ny, radius)}} : TRUE

\* the array a call returned: none when it raised
Built(outcome) == {o.val : o \in {p \in {outcome} : p.exc = "none"}}

\* corner k of the hexagon, k = 0..5, at 60 k + 30 degrees
hexagon_corners(x, y, radius) ==
    [k \in 1..6 |->
        LET theta == Rnd((60 * (k - 1) + 30) * PI, 180)
        IN << x + Mul(radius, Cos(theta)), y + Mul(radius, Sin(theta)), 0 >>]

\* (c[:, 0].max() - c[:, 0].min()) * 0.5 + c[:, 0].min(), likewise for column 1
Midpoint(arr, col) ==
    LET vals == {arr[k][col] : k \in DOMAIN arr}
    IN Rnd(SetMax(vals) - SetMin(vals), 2) + SetMin(vals)

----------------------------------------------------------------------------
(* Spin field *)

\* s_skyrmion comparing rho squared, the square root forgotten, with r_sk
s_skyrmion_squared(r, r_sk, center, helicity, vorticity, chirality) ==
    LET x == r[1] - center[1]
        y == r[2] - center[2]
        rho == Sqrt(Mul(x, x) + Mul(y, y))
        psi == vorticity * Arctan2(y, x) + helicity
        k == Div(PI, r_sk)
    IN IF Mul(x, x) + Mul(y, y) <= r_sk
       THEN << Mul(chirality * Sin(Mul(k, rho)), Cos(psi)),
               Mul(chirality * Sin(Mul(k, rho)), Sin(psi)),
               -chirality * Cos(Mul(k, rho)) >>
       ELSE << 0, 0, chirality * S >>

\* s_skyrmion with the sine and the cosine of k * rho exchanged
s_skyrmion_exchanged(r, r_sk, center, helicity, vorticity, chirality) ==
    LET x == r[1] - center[1]
        y == r[2] - center[2]
        rho == Sqrt(Mul(x, x) + Mul(y, y))
        psi == vorticity * Arctan2(y, x) + helicity
        k == Div(PI, r_sk)
    IN IF rho <= r_sk
       THEN << Mul(chirality * Cos(Mul(k, rho)), Cos(psi)),
               Mul(chirality * Cos(Mul(k, rho)), Sin(psi)),
               -chirality * Sin(Mul(k, rho)) >>
       ELSE << 0, 0, chirality * S >>

\* s_skyrmion with the background (0, 0, 1), the chirality left out
s_skyrmion_background(r, r_sk, center, helicity, vorticity, chirality) ==
    LET x == r[1] - center[1]
        y == r[2] - center[2]
        rho == Sqrt(Mul(x, x) + Mul(y, y))
        psi == vorticity * Arctan2(y, x) + helicity
        k == Div(PI, r_sk)
    IN IF rho <= r_sk
       THEN << Mul(chirality * Sin(Mul(k, rho)), Cos(psi)),
               Mul(chirality * Sin(Mul(k, rho)), Sin(psi)),
               -chirality * Cos(Mul(k, rho)) >>
       ELSE << 0, 0, S >>

s_skyrmion(r, r_sk, center, helicity, vorticity, chirality) ==
    LET x == r[1] - center[1]
        y == r[2] - center[2]
        rho == Sqrt(Mul(x, x) + Mul(y, y))
        psi == vorticity * Arctan2(y, x) + helicity
        k == Div(PI, r_sk)
    IN IF rho <= r_sk
       THEN << Mul(chirality * Sin(Mul(k, rho)), Cos(psi)),
               Mul(chirality * Sin(Mul(k, rho)), Sin(psi)),
               -chirality * Cos(Mul(k, rho)) >>
       ELSE << 0, 0, chirality * S >>

\* spin[k] /= spin_n[k] where spin_n[k] > 0, spin_n = the norms of the rows
NormaliseV[v \in Int \X Int \X Int] ==
    LET spin_n == Sqrt(Mul(v[1], v[1]) + Mul(v[2], v[2]) + Mul(v[3], v[3]))
    IN IF spin_n > 0
       THEN << Div(v[1], spin_n), Div(v[2], spin_n), Div(v[3], spin_n) >>
       ELSE v

\* get_spins with the norm taken over the in-plane components, the z term left out
get_spins_inplane(coordinates, r_sk, center, helicity, vorticity, chirality) ==
    [ret |-> [k \in DOMAIN coordinates |->
                CHOOSE w \in
                    {IF Sqrt(Mul(v[1], v[1]) + Mul(v[2], v[2])) > 0
                     THEN << Div(v[1], Sqrt(Mul(v[1], v[1]) + Mul(v[2], v[2]))),
                             Div(v[2], Sqrt(Mul(v[1], v[1]) + Mul(v[2], v[2]))),
                             Div(v[3], Sqrt(Mul(v[1], v[1]) + Mul(v[2], v[2]))) >>
                     ELSE v :
                        v \in {s_skyrmion(coordinates[k], r_sk, center,
                                          helicity, vorticity, chirality)}} : TRUE],
     coordinates |-> coordinates]

\* get_spins computing in its argument array: the field is written over the
\* coordinates it was given
get_spins_inplace(coordinates, r_sk, center, helicity, vorticity, chirality) ==
    CHOOSE res \in
        {[ret |-> field, coordinates |-> field] :
            field \in {[k \in DOMAIN coordinates |->
                          NormaliseV[s_skyrmion(coordinates[k], r_sk, center,
                                                helicity, vorticity, chirality)]]}} :
        TRUE

\* get_spins: ret is the array returned (s_skyrmion_v applies s_skyrmion to each
\* row), coordinates the content of the argument array, which is passed by
\* reference, when the call returns
get_spins(coordinates, r_sk, center, helicity, vorticity, chirality) ==
    [ret |-> [k \in DOMAIN coordinates |->
                NormaliseV[s_skyrmion(coordinates[k], r_sk, center,
                                      helicity, vorticity, chirality)]],
     coordinates |-> coordinates]

\* spin[:, 2]
Column2(spin) == [k \in DOMAIN spin |-> spin[k][3]]

----------------------------------------------------------------------------
(* State of the notebook *)

VARIABLES
    nx, ny, radius,     \* the lattice size and hexagon radius of the setup cell
    c,                  \* the lattice coordinates
    cenx, ceny,         \* the centre of the lattice's bounding box
    corners,            \* the hexagons around the lattice points
    spin,               \* the spin field computed by the setup cell
    hel_slider, vor_slider, chi_slider, rad_slider,     \* the sliders' values
    coll,               \* the array of the hexagon collection (colours)
    q,                  \* the U, V, C arrays of the arrow plot
    calls,              \* the get_spins calls made by the last cell or callback
    call                \* the last direct call of a function: name, arguments, outcome

vars == << nx, ny, radius, c, cenx, ceny, corners, spin,
           hel_slider, vor_slider, chi_slider, rad_slider, coll, q, calls, call >>

widget == << nx, ny, radius, c, cenx, ceny, corners, spin,
             hel_slider, vor_slider, chi_slider, rad_slider, coll, q, calls >>

\* the outcome of init_corners(coordinates, nx_, ny_, radius_): the loop reads
\* the notebook's c, not its argument coordinates
init_corners(coordinates, nx_, ny_, radius_) ==
    LET dx == 2 * radius_
        h == Div(dx * 2, Sqrt(3 * S))
        cnt == LoopCount(nx_, ny_)
        index(t) == get_index(nx_, ny_, LoopI(nx_, t), LoopJ(nx_, t))
    IN IF \E t \in 0..(cnt - 1) : ~NpIndexOk(index(t), ArrLen(c))
       THEN [exc |-> "IndexError", val |-> EmptyArr]
       ELSE IF cnt = 0 THEN [exc |-> "IndexError", val |-> EmptyArr]
       ELSE [exc |-> "none",
             val |-> [t \in 0..(cnt - 1) |->
                        LET p == c[NpIndex(index(t), ArrLen(c))]
                            hex == hexagon_corners(p[1], p[2], Rnd(h, 2))
                        IN [m \in 1..6 |-> << hex[m][1], hex[m][2] >>]]]

\* the values the sliders take
HelValues == {Rnd(k * PI, HelSteps) : k \in 0..HelSteps}
SignValues == {-1, 1}
RadValues == {r \in RadMin..RadMax : r <= MaxRsk \/ r = RadInit}

\* UpdateArgs with the vorticity branch a copy of the chirality branch, in which
\* only the name of the slider read was changed
UpdateArgs_copied(new, param, hel, vor, chi, rad) ==
    CASE param = "chirality" ->
            [r_sk |-> rad * S, center |-> << cenx, ceny >>,
             helicity |-> hel, vorticity |-> vor, chirality |-> new]
      [] param = "vorticity" ->
            [r_sk |-> rad * S, center |-> << cenx, ceny >>,
             helicity |-> hel, vorticity |-> vor, chirality |-> new]
      [] param = "helicity" ->
            [r_sk |-> rad * S, center |-> << cenx, ceny >>,
             helicity |-> new, vorticity |-> vor, chirality |-> chi]
      [] param = "radius" ->
            [r_sk |-> new * S, center |-> << cenx, ceny >>,
             helicity |-> hel, vorticity |-> vor, chirality |-> chi]

\* the arguments of the get_spins call of update(change, param), change.new = new,
\* made when the sliders hold hel, vor, chi, rad
UpdateArgs(new, param, hel, vor, chi, rad) ==
    CASE param = "chirality" ->
            [r_sk |-> rad * S, center |-> << cenx, ceny >>,
             helicity |-> hel, vorticity |-> vor, chirality |-> new]
      [] param = "vorticity" ->
            [r_sk |-> rad * S, center |-> << cenx, ceny >>,
             helicity |-> hel, vorticity |-> new, chirality |-> chi]
      [] param = "helicity" ->
            [r_sk |-> rad * S, center |-> << cenx, ceny >>,
             helicity |-> new, vorticity |-> vor, chirality |-> chi]
      [] param = "radius" ->
            [r_sk |-> new * S, center |-> << cenx, ceny >>,
             helicity |-> hel, vorticity |-> vor, chirality |-> chi]

\* update(change, param): what it leaves in calls, c, coll and q
update(new, param, hel, vor, chi, rad) ==
    CHOOSE u \in
        {[calls |-> << a >>,
          c |-> r.coordinates,
          coll |-> IF param = "chirality" THEN Column2(r.ret) ELSE coll,
          q |-> r.ret] :
            << a, r >> \in
                {<< b, get_spins(c, b.r_sk, b.center, b.helicity, b.vorticity,
                                b.chirality) >> :
                    b \in {UpdateArgs(new, param, hel, vor, chi, rad)}}} : TRUE

Updated(u) ==
    /\ calls' = u.calls
    /\ c' = u.c
    /\ coll' = u.coll
    /\ q' = u.q
    /\ UNCHANGED << nx, ny, radius, cenx, ceny, corners, spin, call >>

NoCall == [fn |-> "none", args |-> << >>, out |-> << >>]

\* the setup cell, for a lattice of n by m points, and the cell that builds the
\* sliders and the plot
Setup(n, m) ==
    \E lat \in Built(init_coordinates(n, m, LatRadius * S)) :
    \E a \in {[r_sk |-> RadInit * S,
               center |-> << Midpoint(lat, 1), Midpoint(lat, 2) >>,
               helicity |-> 0, vorticity |-> 1, chirality |-> 1]} :
    \E r \in {get_spins(lat, a.r_sk, a.center, a.helicity, a.vorticity, a.chirality)} :
       /\ nx = n
       /\ ny = m
       /\ radius = LatRadius * S
       /\ cenx = a.center[1]
       /\ ceny = a.center[2]
       /\ c = r.coordinates
       /\ spin = r.ret
       /\ calls = << a >>
       /\ hel_slider = 0
       /\ vor_slider = 1
       /\ chi_slider = 1
       /\ rad_slider = RadInit
       /\ coll = Column2(r.ret)
       /\ q = r.ret
       /\ call = NoCall

Init ==
    /\ \E n \in 1..MaxWidgetN, m \in 1..MaxWidgetN : Setup(n, m)
    /\ corners = init_corners(c, nx, ny, radius).val

----------------------------------------------------------------------------
(* The slider callbacks: a slider notifies its observer when its value changes *)

ChangeHelicity ==
    \E new \in HelValues \ {hel_slider} :
        \E u \in {update(new, "helicity", new, vor_slider, chi_slider, rad_slider)} :
           /\ hel_slider' = new
           /\ UNCHANGED << vor_slider, chi_slider, rad_slider >>
           /\ Updated(u)

ChangeVorticity ==
    \E new \in SignValues \ {vor_slider} :
        \E u \in {update(new, "vorticity", hel_slider, new, chi_slider, rad_slider)} :
           /\ vor_slider' = new
           /\ UNCHANGED << hel_slider, chi_slider, rad_slider >>
           /\ Updated(u)

ChangeChirality ==
    \E new \in SignValues \ {chi_slider} :
        \E u \in {update(new, "chirality", hel_slider, vor_slider, new, rad_slider)} :
           /\ chi_slider' = new
           /\ UNCHANGED << hel_slider, vor_slider, rad_slider >>
           /\ Updated(u)

ChangeRadius ==
    \E new \in RadValues \ {rad_slider} :
        \E u \in {update(new, "radius", hel_slider, vor_slider, chi_slider, new)} :
           /\ rad_slider' = new
           /\ UNCHANGED << hel_slider, vor_slider, chi_slider >>
           /\ Updated(u)

Next == ChangeHelicity \/ ChangeVorticity \/ ChangeChirality \/ ChangeRadius

Spec == Init /\ [][Next]_vars

----------------------------------------------------------------------------
(* Direct calls of the functions, each with arguments from a bounded set *)

Called(fn, args, out) ==
    /\ call' = [fn |-> fn, args |-> args, out |-> out]
    /\ UNCHANGED widget

CallInitCoordinates ==
    /\ call = NoCall
    /\ \E n \in -1..MaxN, m \in -1..MaxN, rd \in -1..MaxRadius :
        Called("init_coordinates", [nx |-> n, ny |-> m, radius |-> rd * S],
               init_coordinates(n, m, rd * S))

CallGetIndex ==
    /\ call = NoCall
    /\ \E n \in 1..MaxN, m \in 1..MaxN, i \in -1..(MaxN + 1), j \in -1..(MaxN + 1) :
        Called("get_index", [nx |-> n, ny |-> m, i |-> i, j |-> j],
               get_index(n, m, i, j))

CallInitCorners ==
    /\ call = NoCall
    /\ \E n \in 1..MaxN, m \in 1..MaxN, rd \in 1..MaxRadius :
        \E lat \in Built(init_coordinates(n, m, rd * S)) :
            Called("init_corners",
                   [coordinates |-> lat, nx |-> n, ny |-> m, radius |-> rd * S],
                   init_corners(lat, n, m, rd * S))

CallSSkyrmion ==
    /\ call = NoCall
    /\ \E x \in -MaxPos..MaxPos, y \in -MaxPos..MaxPos, rs \in 1..MaxRsk,
       hel \in HelValues, vor \in SignValues, chi \in SignValues :
        Called("s_skyrmion",
               [r |-> << x * S, y * S, 0 >>, r_sk |-> rs * S, center |-> << 0, 0 >>,
                helicity |-> hel, vorticity |-> vor, chirality |-> chi],
               s_skyrmion(<< x * S, y * S, 0 >>, rs * S, << 0, 0 >>, hel, vor, chi))

\* get_spins on a lattice of its own, centred as the setup cell centres it
CallGetSpins ==
    /\ call = NoCall
    /\ \E n \in 1..MaxN, m \in 1..MaxN :
       \E lat \in Built(init_coordinates(n, m, LatRadius * S)) :
       \E cen \in {<< Midpoint(lat, 1), Midpoint(lat, 2) >>} :
       \E rs \in 1..MaxRsk, hel \in HelValues, vor \in SignValues, chi \in SignValues :
               Called("get_spins",
                      [coordinates |-> lat, nx |-> n, ny |-> m,
                       radius |-> LatRadius * S, r_sk |-> rs * S, center |-> cen, helicity |-> hel, vorticity |-> vor,
                       chirality |-> chi],
                      get_spins(lat, rs * S, cen, hel, vor, chi))

NextCalls ==
    \/ CallInitCoordinates
    \/ CallGetIndex
    \/ CallInitCorners
    \/ CallSSkyrmion
    \/ CallGetSpins

\* the direct calls are made in the notebook set up with its largest lattice
InitCalls ==
    /\ Setup(MaxWidgetN, MaxWidgetN)
    /\ corners = init_corners(c, nx, ny, radius).val

SpecCalls == InitCalls /\ [][NextCalls]_vars

----------------------------------------------------------------------------
(* Claims *)

IsCall(fn) == call.fn = fn

\* C1: for nx >= 1, ny >= 1 and radius > 0, init_coordinates returns exactly
\* nx * ny points; get_index maps the pairs 0 <= i < nx, 0 <= j < ny one-to-one
\* onto 0..nx*ny-1; and every slot of the output is written exactly once.
C1_LatticeSizeAndIndexBijection ==
    (IsCall("init_coordinates") /\ call.args.nx >= 1 /\ call.args.ny >= 1
        /\ call.args.radius > 0) =>
        \E n \in {call.args.nx}, m \in {call.args.ny} :
        \E ws \in {CoordinateWrites(n, m, call.args.radius)} :
            /\ call.out.exc = "none"
            /\ DOMAIN call.out.val = 0..(n * m - 1)
            /\ \A i \in 0..(n - 1), j \in 0..(m - 1) :
                    get_index(n, m, i, j) \in 0..(n * m - 1)
            /\ \A i1 \in 0..(n - 1), j1 \in 0..(m - 1),
                  i2 \in 0..(n - 1), j2 \in 0..(m - 1) :
                    get_index(n, m, i1, j1) = get_index(n, m, i2, j2)
                        => (i1 = i2 /\ j1 = j2)
            /\ \A k \in 0..(n * m - 1) :
                    Cardinality({t \in 1..Len(ws) : ws[t].index = k}) = 1

C1_Witness ==
    /\ IsCall("init_coordinates")
    /\ call.args.nx = 3 /\ call.args.ny = 2 /\ call.args.radius = 2 * S
    /\ call.out.exc = "none"
    /\ ArrLen(call.out.val) = 6

\* C2, as claimed: init_coordinates fails with InvalidArgument, producing no
\* lattice, whenever nx < 1, ny < 1 or radius <= 0.
C2_FailsFastOnInvalidArguments ==
    (IsCall("init_coordinates")
        /\ (call.args.nx < 1 \/ call.args.ny < 1 \/ call.args.radius <= 0)) =>
        call.out.exc = "InvalidArgument"

\* C2, amended: init_coordinates validates nothing and never fails with
\* InvalidArgument.  It raises (numpy's ValueError) exactly when nx * ny < 0;
\* otherwise it returns nx * ny rows, of which exactly the slots of the pairs
\* 0 <= i < nx, 0 <= j < ny are written: a complete lattice for nx, ny >= 1
\* whatever the radius, an empty array when nx = 0 or ny = 0, and nx * ny
\* rows of zeros, none of them written, when nx < 0 and ny < 0.
C2_NoValidation ==
    IsCall("init_coordinates") =>
        \E n \in {call.args.nx}, m \in {call.args.ny} :
            /\ call.out.exc # "InvalidArgument"
            /\ (call.out.exc = "ValueError") <=> (n * m < 0)
            /\ (n * m >= 0) =>
                /\ call.out.exc = "none"
                /\ DOMAIN call.out.val = 0..(n * m - 1)
                /\ (n >= 1 /\ m >= 1) =>
                        \A i \in 0..(n - 1), j \in 0..(m - 1) :
                            call.out.val[i + j * n] =
                                LatticePoint(i, j, call.args.radius)
                /\ (n < 0 /\ m < 0) =>
                        \A k \in 0..(n * m - 1) : call.out.val[k] = Zeros3

C2_Witness ==
    /\ IsCall("init_coordinates")
    /\ call.args.nx = -1 /\ call.args.ny = -1
    /\ call.out.exc = "none"
    /\ ArrLen(call.out.val) = 1
    /\ call.out.val[0] = Zeros3

\* C3: after any sequence of slider changes, the last change triggered exactly
\* one evaluation, over the whole lattice, whose arguments are the sliders'
\* current values (the new value of the changed one, the last values of the
\* others) and the centre computed once by the setup cell.
C3_EvaluationUsesCurrentSliders ==
    /\ calls = << [r_sk |-> rad_slider * S,
                   center |-> << Midpoint(c, 1), Midpoint(c, 2) >>,
                   helicity |-> hel_slider,
                   vorticity |-> vor_slider,
                   chirality |-> chi_slider] >>
    /\ << cenx, ceny >> = << Midpoint(c, 1), Midpoint(c, 2) >>
    /\ DOMAIN q = 0..(nx * ny - 1)

C3_Witness ==
    /\ hel_slider = PI
    /\ vor_slider = -1
    /\ chi_slider = 1
    /\ rad_slider = RadMin
    /\ nx * ny > 1
    /\ Len(calls) = 1
    /\ calls[1].vorticity = -1

\* the quantities s_skyrmion derives from its arguments
RhoOf(a) ==
    Sqrt(Mul(a.r[1] - a.center[1], a.r[1] - a.center[1])
         + Mul(a.r[2] - a.center[2], a.r[2] - a.center[2]))
PsiOf(a) ==
    a.vorticity * Arctan2(a.r[2] - a.center[2], a.r[1] - a.center[1]) + a.helicity
ThetaOf(a) == Mul(Div(PI, a.r_sk), RhoOf(a))

\* C4: s_skyrmion selects its branch by rho alone: for rho > r_sk the result is
\* exactly (0, 0, chirality), whatever the helicity and vorticity; for
\* rho <= r_sk, the boundary rho = r_sk included, it is the interior formula
\* (chirality sin(k rho) cos(psi), chirality sin(k rho) sin(psi),
\*  -chirality cos(k rho)).
C4_BranchByRho ==
    IsCall("s_skyrmion") =>
        \E a \in {call.args} :
            /\ (RhoOf(a) > a.r_sk) => call.out = << 0, 0, a.chirality * S >>
            /\ (RhoOf(a) <= a.r_sk) =>
                    call.out = << Mul(a.chirality * Sin(ThetaOf(a)), Cos(PsiOf(a))),
                                  Mul(a.chirality * Sin(ThetaOf(a)), Sin(PsiOf(a))),
                                  -a.chirality * Cos(ThetaOf(a)) >>

\* a call on the boundary rho = r_sk, answered by the interior formula
C4_Witness ==
    /\ IsCall("s_skyrmion")
    /\ RhoOf(call.args) = call.args.r_sk
    /\ call.args.r[2] # call.args.center[2]
    /\ call.args.helicity # 0
    /\ call.out[3] = -call.args.chirality * Cos(ThetaOf(call.args))

\* C5: at the exact centre, rho = 0, s_skyrmion returns (0, 0, -chirality) for
\* every r_sk > 0, helicity and vorticity: the opposite z-sign to the
\* background (0, 0, chirality) of the points outside the disk.
C5_CentreIsMinusChirality ==
    IsCall("s_skyrmion") =>
        \E a \in {call.args} :
            /\ (a.r[1] = a.center[1] /\ a.r[2] = a.center[2]) =>
                    call.out = << 0, 0, -a.chirality * S >>
            /\ (RhoOf(a) > a.r_sk) => call.out = << 0, 0, a.chirality * S >>

C5_Witness ==
    /\ IsCall("s_skyrmion")
    /\ call.args.r[1] = call.args.center[1]
    /\ call.args.r[2] = call.args.center[2]
    /\ call.args.helicity = HalfPi
    /\ call.args.vorticity = -1
    /\ call.args.chirality = -1
    /\ call.out = << 0, 0, S >>

Neg(v) == << -v[1], -v[2], -v[3] >>

\* C6: for every position and fixed r_sk, centre, helicity and vorticity, the
\* field with chirality -1 is the componentwise negation of the field with
\* chirality +1: for s_skyrmion in both branches, and for get_spins after the
\* normalisation.
C6_ChiralityFlipNegates ==
    /\ IsCall("s_skyrmion") =>
        \E a \in {call.args} :
            call.out = Neg(s_skyrmion(a.r, a.r_sk, a.center, a.helicity,
                                      a.vorticity, -a.chirality))
    /\ IsCall("get_spins") =>
        \E a \in {call.args} :
        \E flipped \in {get_spins(a.coordinates, a.r_sk, a.center, a.helicity,
                                  a.vorticity, -a.chirality).ret} :
            /\ DOMAIN call.out.ret = DOMAIN flipped
            /\ \A k \in DOMAIN flipped : call.out.ret[k] = Neg(flipped[k])

\* the distance of row k of the lattice of a get_spins call from the centre
RhoAt(a, k) ==
    Sqrt(Mul(a.coordinates[k][1] - a.center[1], a.coordinates[k][1] - a.center[1])
         + Mul(a.coordinates[k][2] - a.center[2], a.coordinates[k][2] - a.center[2]))

\* a field with chirality -1 that has points of both branches
C6_Witness ==
    /\ IsCall("get_spins")
    /\ call.args.chirality = -1
    /\ \E k \in DOMAIN call.out.ret :
            RhoAt(call.args, k) > call.args.r_sk /\ call.out.ret[k] = << 0, 0, -S >>
    /\ \E k \in DOMAIN call.out.ret :
            /\ RhoAt(call.args, k) <= call.args.r_sk
            /\ call.out.ret[k][1] # 0
            /\ call.out.ret[k][3] # 0

NormOf(v) == Sqrt(Mul(v[1], v[1]) + Mul(v[2], v[2]) + Mul(v[3], v[3]))

\* C7: every vector get_spins returns has norm 1 within tolerance, for every
\* lattice point and every r_sk > 0, helicity, vorticity and chirality; it is
\* the vector of s_skyrmion divided by its norm when that norm is > 0, and
\* that vector unchanged when its norm is 0.
C7_UnitNorm ==
    IsCall("get_spins") =>
        \E a \in {call.args} :
        \A k \in DOMAIN a.coordinates :
        \E raw \in {s_skyrmion(a.coordinates[k], a.r_sk, a.center, a.helicity,
                               a.vorticity, a.chirality)} :
        \E n \in {NormOf(raw)} :
            /\ Abs(NormOf(call.out.ret[k]) - S) <= Tol
            /\ (n > 0) => call.out.ret[k] =
                            << Div(raw[1], n), Div(raw[2], n), Div(raw[3], n) >>
            /\ (n = 0) => call.out.ret[k] = raw

\* a field with a tilted interior vector that the division changed
C7_Witness ==
    /\ IsCall("get_spins")
    /\ \E k \in DOMAIN call.out.ret :
            /\ RhoAt(call.args, k) <= call.args.r_sk
            /\ call.out.ret[k][1] # 0
            /\ call.out.ret[k][3] # 0
            /\ call.out.ret[k] # s_skyrmion(call.args.coordinates[k], call.args.r_sk,
                                            call.args.center, call.args.helicity,
                                            call.args.vorticity, call.args.chirality)

\* the centre of a hexagon: the midpoint of its corners at 30 and 210 degrees
HexCentre(hex) == << Rnd(hex[1][1] + hex[4][1], 2), Rnd(hex[1][2] + hex[4][2], 2) >>

\* C8, as claimed: init_corners returns one hexagon per point of the lattice
\* passed to it, at the same index, centred at that point: the result depends
\* on the arguments only, not on the notebook's own lattice c.
C8_CellsCentredOnArgument ==
    IsCall("init_corners") =>
        \E a \in {call.args} :
            /\ call.out.exc = "none"
            /\ DOMAIN call.out.val = DOMAIN a.coordinates
            /\ \A k \in DOMAIN call.out.val :
                /\ Abs(HexCentre(call.out.val[k])[1] - a.coordinates[k][1]) <= Tol
                /\ Abs(HexCentre(call.out.val[k])[2] - a.coordinates[k][2]) <= Tol

\* C9: get_spins is pure.  No call changes the lattice it is given: c is still
\* the lattice init_coordinates built.  And a call with the arguments of the
\* setup cell's call returns the array that call returned (spin), whatever
\* evaluations and slider changes came between the two.
C9_GetSpinsIsPure ==
    /\ c = init_coordinates(nx, ny, radius).val
    /\ (calls = << [r_sk |-> RadInit * S, center |-> << cenx, ceny >>,
                    helicity |-> 0, vorticity |-> 1, chirality |-> 1] >>)
            => q = spin

\* the sliders are back at their first values after a change of chirality made
\* at another radius: the call repeats the setup cell's, the colours are older
C9_Witness ==
    /\ calls = << [r_sk |-> RadInit * S, center |-> << cenx, ceny >>,
                   helicity |-> 0, vorticity |-> 1, chirality |-> 1] >>
    /\ nx * ny > 1
    /\ coll # Column2(spin)
    /\ q = spin

\* the scenario of C10: nx = ny = 4, radius = 1, r_sk = 2, the centre the
\* midpoint of the bounding box, helicity 0, vorticity 1, chirality 1
Scenario ==
    /\ IsCall("get_spins")
    /\ call.args.nx = 4 /\ call.args.ny = 4 /\ call.args.radius = S
    /\ call.args.r_sk = 2 * S
    /\ call.args.center = << Midpoint(call.args.coordinates, 1),
                             Midpoint(call.args.coordinates, 2) >>
    /\ call.args.helicity = 0 /\ call.args.vorticity = 1 /\ call.args.chirality = 1

\* the rows of the lattice nearest the centre
Nearest(a) ==
    {k \in DOMAIN a.coordinates :
        \A m \in DOMAIN a.coordinates : RhoAt(a, k) <= RhoAt(a, m)}

\* C10, as claimed: in the scenario the lattice point nearest the centre has
\* spin approximately (0, 0, -1).
C10_NearestIsCore ==
    Scenario =>
        \A k \in Nearest(call.args) :
            /\ Abs(call.out.ret[k][1]) <= Tol
            /\ Abs(call.out.ret[k][2]) <= Tol
            /\ Abs(call.out.ret[k][3] + S) <= Tol

\* C10, amended: in the scenario no lattice point is at the centre; the points
\* nearest it are at distance 1 = r_sk / 2, where k rho = pi / 2, so their spin
\* lies in the plane: its z-component is about 0 and its in-plane part is about
\* the unit vector pointing from the centre to the point.
C10_NearestIsInPlane ==
    Scenario =>
        \A k \in Nearest(call.args) :
        \E a \in {call.args} :
        \E rho \in {RhoAt(a, k)} :
            /\ Abs(rho - S) <= Tol
            /\ Abs(call.out.ret[k][3]) <= Tol
            /\ Abs(call.out.ret[k][1]
                   - Div(a.coordinates[k][1] - a.center[1], rho)) <= Tol
            /\ Abs(call.out.ret[k][2]
                   - Div(a.coordinates[k][2] - a.center[2], rho)) <= Tol

C10_Witness ==
    /\ Scenario
    /\ Cardinality(Nearest(call.args)) = 2
    /\ \A k \in Nearest(call.args) : RhoAt(call.args, k) = S

\* the pair (i, j) names a point of the nx by ny lattice
InRange(a) == 0 <= a.i /\ a.i < a.nx /\ 0 <= a.j /\ a.j < a.ny

FormulaX(i, j, dx) == (IF j % 2 = 0 THEN Rnd(dx, 2) ELSE 0) + i * dx + Rnd(dx, 2)
FormulaY(j, dy, h) == j * dy + Rnd(h, 2)

C13_ColoursFollowField ==
    /\ coll = Column2(q)
    /\ q = get_spins(c, rad_slider * S, << cenx, ceny >>,
                     hel_slider, vor_slider, chi_slider).ret

====
